---- MODULE Spec2Model ----
(***************************************************************************)
(* The assistant bot of address_book_v2.py / main.py + handlers.py: an     *)
(* in-memory address book driven by a line-oriented command loop.          *)
(*                                                                         *)
(* A Python str is a sequence of one-character strings; text that is       *)
(* printed is a TLA+ string built with \o.  A datetime is <<y, m, d, tod>>  *)
(* where tod counts ticks since midnight (TicksPerDay ticks in a day); a   *)
(* Birthday value is the parsed date at midnight, <<y, m, d>>; None is <<>>.*)
(*                                                                         *)
(* main.py imports parse_input, input_error and the classes from modules   *)
(* utils and models; they are taken to be the definitions of the same      *)
(* names in address_book_v2.py, whose handlers handlers.py repeats line by  *)
(* line but for the parameters of show_all_contacts.                       *)
(*                                                                         *)
(* Spec is a session of the command loop, the clock standing still at      *)
(* LoopStart; DateSpec calls the two date queries of the classes on        *)
(* populated books while the clock ticks.                                  *)
(***************************************************************************)
EXTENDS Integers, Sequences, FiniteSets, TLC

VARIABLES
    book,      \* AddressBook.data: the records, in insertion order
    status,    \* "running", "exited" (break) or the uncaught exception's type
    output,    \* the last string printed on standard output
    line,      \* the last line read by input()
    entry,     \* the script that runs: "address_book_v2" or "main"
    now,       \* what datetime.today() returns: <<y, m, d, tod>>
    upcoming,  \* result of the last direct AddressBook.upcoming_birthdays()
    days       \* result of the last direct Record.days_to_birthday()

vars == <<book, status, output, line, entry, now, upcoming, days>>

-----------------------------------------------------------------------------
(* Bounds of the model *)

\* phones the book may hold before the model stops adding to it
MaxPhones == 2
\* clock ticks the model lets pass after a start instant
MaxTicks == 2
\* instants of a day the clock distinguishes: 0 is 00:00:00.000000
TicksPerDay == 2

-----------------------------------------------------------------------------
(* Characters and strings *)

AsciiDigits == {"0", "1", "2", "3", "4", "5", "6", "7", "8", "9"}

\* a decimal digit outside ASCII (ARABIC-INDIC DIGIT THREE), category Nd
ArabicThree == "U+0663"

\* what \d matches in a str pattern: any Unicode decimal digit
IsDecimalDigit(c) == c \in AsciiDigits \cup {ArabicThree}

DigitValue(c) ==
    CASE c = "0" -> 0 [] c = "1" -> 1 [] c = "2" -> 2 [] c = "3" -> 3
      [] c = "4" -> 4 [] c = "5" -> 5 [] c = "6" -> 6 [] c = "7" -> 7
      [] c = "8" -> 8 [] c = "9" -> 9 [] c = ArabicThree -> 3

DigitChar(n) ==
    CASE n = 0 -> "0" [] n = 1 -> "1" [] n = 2 -> "2" [] n = 3 -> "3"
      [] n = 4 -> "4" [] n = 5 -> "5" [] n = 6 -> "6" [] n = 7 -> "7"
      [] n = 8 -> "8" [] n = 9 -> "9"

\* int(s) of a string of decimal digits
RECURSIVE IntOf(_)
IntOf(s) ==
    IF s = <<>> THEN 0
    ELSE 10 * IntOf(SubSeq(s, 1, Len(s) - 1)) + DigitValue(s[Len(s)])

\* str(n) for n >= 0
RECURSIVE IntStr(_)
IntStr(n) == IF n < 10 THEN DigitChar(n) ELSE IntStr(n \div 10) \o DigitChar(n % 10)

\* the printable text of a str
RECURSIVE Text(_)
Text(s) == IF s = <<>> THEN "" ELSE Head(s) \o Text(Tail(s))

\* sep.join(parts), parts a sequence of printable texts
RECURSIVE JoinText(_, _)
JoinText(sep, parts) ==
    IF parts = <<>> THEN ""
    ELSE IF Len(parts) = 1 THEN parts[1]
    ELSE parts[1] \o sep \o JoinText(sep, Tail(parts))

IsSpace(c) == c = " "

\* str.lower() on the letters the inputs use
LowerChar(c) ==
    CASE c = "A" -> "a" [] c = "D" -> "d" [] c = "E" -> "e" [] c = "L" -> "l"
      [] c = "X" -> "x" [] c = "I" -> "i" [] c = "T" -> "t" [] c = "H" -> "h"
      [] c = "O" -> "o" [] OTHER -> c

lower(s) == [i \in 1..Len(s) |-> LowerChar(s[i])]

\* str.split(): the maximal runs of non-whitespace characters
RECURSIVE SplitFrom(_, _, _)
SplitFrom(s, i, word) ==
    IF i > Len(s) THEN (IF word = <<>> THEN <<>> ELSE <<word>>)
    ELSE IF IsSpace(s[i])
         THEN (IF word = <<>> THEN <<>> ELSE <<word>>) \o SplitFrom(s, i + 1, <<>>)
         ELSE SplitFrom(s, i + 1, Append(word, s[i]))

split(s) == SplitFrom(s, 1, <<>>)

\* s.split(sep) for a one-character separator: empty fields are kept
RECURSIVE SplitOnFrom(_, _, _, _)
SplitOnFrom(s, sep, i, field) ==
    IF i > Len(s) THEN <<field>>
    ELSE IF s[i] = sep
         THEN <<field>> \o SplitOnFrom(s, sep, i + 1, <<>>)
         ELSE SplitOnFrom(s, sep, i + 1, Append(field, s[i]))

AllDigits(s) == \A i \in 1..Len(s) : IsDecimalDigit(s[i])

-----------------------------------------------------------------------------
(* The proleptic Gregorian calendar of the datetime module *)

IsLeap(y) == (y % 4 = 0) /\ ((y % 100 # 0) \/ (y % 400 = 0))

DaysInMonth(y, m) ==
    CASE m \in {1, 3, 5, 7, 8, 10, 12} -> 31
      [] m \in {4, 6, 9, 11} -> 30
      [] m = 2 -> IF IsLeap(y) THEN 29 ELSE 28

RECURSIVE DaysBeforeMonth(_, _)
DaysBeforeMonth(y, m) ==
    IF m = 1 THEN 0 ELSE DaysBeforeMonth(y, m - 1) + DaysInMonth(y, m - 1)

DaysBeforeYear(y) ==
    (y - 1) * 365 + ((y - 1) \div 4) - ((y - 1) \div 100) + ((y - 1) \div 400)

\* date.toordinal()
Ordinal(y, m, d) == DaysBeforeYear(y) + DaysBeforeMonth(y, m) + d

ValidDate(y, m, d) ==
    /\ y \in 1..9999
    /\ m \in 1..12
    /\ d \in 1..DaysInMonth(y, m)

\* the instant of a datetime, in ticks; a date is a datetime at midnight
Instant(dt) ==
    Ordinal(dt[1], dt[2], dt[3]) * TicksPerDay + (IF Len(dt) = 4 THEN dt[4] ELSE 0)

\* the calendar day after <<y, m, d>>
NextDay(y, m, d) ==
    IF d < DaysInMonth(y, m) THEN <<y, m, d + 1>>
    ELSE IF m < 12 THEN <<y, m + 1, 1>>
    ELSE <<y + 1, 1, 1>>

\* strftime("%d.%m.%Y") on glibc: two digits, two digits, the year unpadded
Pad2(n) == DigitChar(n \div 10) \o DigitChar(n % 10)
strftime(dt) == Pad2(dt[3]) \o "." \o Pad2(dt[2]) \o "." \o IntStr(dt[1])

\* datetime.strptime(value, "%d.%m.%Y"): <<y, m, d>>, or <<>> for ValueError
strptime(value) ==
    LET f == SplitOnFrom(value, ".", 1, <<>>) IN
    IF /\ Len(f) = 3
       /\ Len(f[1]) \in 1..2 /\ AllDigits(f[1]) /\ IntOf(f[1]) \in 1..31
       /\ Len(f[2]) \in 1..2 /\ AllDigits(f[2]) /\ IntOf(f[2]) \in 1..12
       /\ Len(f[3]) = 4 /\ AllDigits(f[3])
       /\ ValidDate(IntOf(f[3]), IntOf(f[2]), IntOf(f[1]))
    THEN <<IntOf(f[3]), IntOf(f[2]), IntOf(f[1])>>
    ELSE <<>>

\* datetime.replace(year=y): <<>> stands for ValueError (29 February)
ReplaceYear(dt, y) ==
    IF ValidDate(y, dt[2], dt[3]) THEN <<y, dt[2], dt[3]>> ELSE <<>>

DayOutOfRange == "day is out of range for month"

-----------------------------------------------------------------------------
(* Field, Name, Phone, Birthday, Record *)

None == <<>>

\* digits that \d{10} asks for
PhoneDigits == 10

PhoneError == "Phone number must consist of exactly 10 digits."
BirthdayError == "Invalid date format. Use DD.MM.YYYY."
NameError == "Name cannot be empty."

\* a result of a call: the value returned, or the exception raised with str(e)
Returned(v) == [exc |-> "None", value |-> v]
Raised(type, msg) == [exc |-> type, value |-> msg]

\* Name.__init__ accepts value
NameOk(value) == value # <<>>

\* Phone.__init__ with re.match(r"\d+", value): any run of digits passes
PhoneOkAnyLength(value) == value # <<>> /\ IsDecimalDigit(value[1])

\* Phone.__init__ accepts value: re.fullmatch(r"\d{10}", value)
PhoneOk(value) == Len(value) = PhoneDigits /\ AllDigits(value)

\* Birthday.__init__ accepts value
BirthdayOk(value) == strptime(value) # <<>>

\* Record.__init__
Record(name) == [name |-> name, phones |-> <<>>, birthday |-> None]

\* Record.add_phone: the record afterwards, and what the call did
add_phone(rec, phone) ==
    IF PhoneOk(phone)
    THEN [rec |-> [rec EXCEPT !.phones = Append(@, phone)], res |-> Returned(None)]
    ELSE [rec |-> rec, res |-> Raised("ValueError", PhoneError)]

\* Record.remove_phone
remove_phone(rec, phone) ==
    [rec EXCEPT !.phones = SelectSeq(@, LAMBDA p : p # phone)]

\* index of the first phone equal to old_phone, 0 when there is none
RECURSIVE FirstIndex(_, _, _)
FirstIndex(phones, old_phone, i) ==
    IF i > Len(phones) THEN 0
    ELSE IF phones[i] = old_phone THEN i
    ELSE FirstIndex(phones, old_phone, i + 1)

PhoneNotFound(old_phone) == "Phone number " \o Text(old_phone) \o " not found."

\* Record.edit_phone that appends the new phone and leaves the old one
edit_phone_keeps_old(rec, old_phone, new_phone) ==
    LET i == FirstIndex(rec.phones, old_phone, 1) IN
    IF i = 0 THEN [rec |-> rec, res |-> Raised("ValueError", PhoneNotFound(old_phone))]
    ELSE IF ~PhoneOk(new_phone) THEN [rec |-> rec, res |-> Raised("ValueError", PhoneError)]
    ELSE [rec |-> [rec EXCEPT !.phones = Append(@, new_phone)], res |-> Returned(None)]

\* Record.edit_phone
edit_phone(rec, old_phone, new_phone) ==
    LET i == FirstIndex(rec.phones, old_phone, 1) IN
    IF i = 0 THEN [rec |-> rec, res |-> Raised("ValueError", PhoneNotFound(old_phone))]
    ELSE IF ~PhoneOk(new_phone) THEN [rec |-> rec, res |-> Raised("ValueError", PhoneError)]
    ELSE [rec |-> [rec EXCEPT !.phones[i] = new_phone], res |-> Returned(None)]

\* Record.add_birthday
record_add_birthday(rec, birthday) ==
    IF BirthdayOk(birthday)
    THEN [rec |-> [rec EXCEPT !.birthday = strptime(birthday)], res |-> Returned(None)]
    ELSE [rec |-> rec, res |-> Raised("ValueError", BirthdayError)]

\* Record.days_to_birthday at the instant today
days_to_birthday(rec, today) ==
    IF rec.birthday = None THEN Returned(None)
    ELSE LET this_year == ReplaceYear(rec.birthday, today[1]) IN
         IF this_year = <<>> THEN Raised("ValueError", DayOutOfRange)
         ELSE IF Instant(this_year) < Instant(today)
              THEN LET next_year == ReplaceYear(rec.birthday, today[1] + 1) IN
                   IF next_year = <<>> THEN Raised("ValueError", DayOutOfRange)
                   ELSE Returned(<<(Instant(next_year) - Instant(today)) \div TicksPerDay>>)
              ELSE Returned(<<(Instant(this_year) - Instant(today)) \div TicksPerDay>>)

\* Record.__str__
RecordStr(rec) ==
    "Contact name: " \o Text(rec.name)
        \o ", phones: " \o JoinText("; ", [i \in 1..Len(rec.phones) |-> Text(rec.phones[i])])
        \o ", birthday: " \o (IF rec.birthday # None THEN strftime(rec.birthday) ELSE "N/A")

-----------------------------------------------------------------------------
(* AddressBook: a dict, kept as the sequence of its values in insertion order *)

\* position of the record stored under name, 0 when the key is absent
RECURSIVE IndexOf(_, _, _)
IndexOf(data, name, i) ==
    IF i > Len(data) THEN 0
    ELSE IF data[i].name = name THEN i
    ELSE IndexOf(data, name, i + 1)

\* AddressBook.find: the record, or None
find(data, name) ==
    LET i == IndexOf(data, name, 1) IN IF i = 0 THEN None ELSE data[i]

\* AddressBook.add_record: an existing key keeps its place
add_record(data, rec) ==
    LET i == IndexOf(data, rec.name, 1) IN
    IF i = 0 THEN Append(data, rec) ELSE [data EXCEPT ![i] = rec]

\* the record stored under rec.name is mutated in place
store(data, rec) == [data EXCEPT ![IndexOf(data, rec.name, 1)] = rec]

\* the test of the comprehension of AddressBook.upcoming_birthdays for one
\* record: "skip", "keep" or "raise"
InWindow(rec, today) ==
    IF rec.birthday = None THEN "skip"
    ELSE LET cmp == ReplaceYear(rec.birthday, today[1]) IN
         IF cmp = <<>> THEN "raise"
         ELSE IF /\ Instant(today) <= Instant(cmp)
                 /\ Instant(cmp) <= Instant(today) + 7 * TicksPerDay
              THEN "keep" ELSE "skip"

\* AddressBook.upcoming_birthdays at the instant today: the records kept, in
\* the order of data.values()
upcoming_birthdays(data, today) ==
    IF \E i \in 1..Len(data) : InWindow(data[i], today) = "raise"
    THEN Raised("ValueError", DayOutOfRange)
    ELSE Returned(SelectSeq(data, LAMBDA r : InWindow(r, today) = "keep"))

\* AddressBook.__str__
BookStr(data) == JoinText("\n", [i \in 1..Len(data) |-> RecordStr(data[i])])

-----------------------------------------------------------------------------
(* The handlers.  Each takes the argument list and the book's data and gives *)
(* the book's data afterwards and the result of the call.                   *)

NotEnoughAtLeast(n, got) ==
    "not enough values to unpack (expected at least " \o IntStr(n)
        \o ", got " \o IntStr(got) \o ")"
NotEnough(n, got) ==
    "not enough values to unpack (expected " \o IntStr(n) \o ", got " \o IntStr(got) \o ")"
TooMany(n) == "too many values to unpack (expected " \o IntStr(n) \o ")"

\* the decorator input_error around the result of the decorated call
input_error(r) ==
    CASE r.res.exc = "ValueError" -> [book |-> r.book, res |-> Returned(r.res.value)]
      [] r.res.exc = "IndexError" -> [book |-> r.book, res |-> Returned("Error: Missing arguments.")]
      [] r.res.exc = "KeyError" -> [book |-> r.book, res |-> Returned("Error: Contact not found.")]
      [] OTHER -> r

greet(args, data) == [book |-> data, res |-> Returned("How can I help you?")]

\* the body of add_contact from "if phone:" on, record being the one under name
AddContactFields(data, name, phone, birthday, message) ==
    LET r1 == IF phone # <<>> THEN add_phone(find(data, name), phone)
              ELSE [rec |-> find(data, name), res |-> Returned(None)]
        data1 == store(data, r1.rec)
    IN  IF r1.res.exc # "None" THEN [book |-> data1, res |-> r1.res]
        ELSE LET r2 == IF birthday # None THEN record_add_birthday(r1.rec, birthday)
                       ELSE [rec |-> r1.rec, res |-> Returned(None)]
             IN  IF r2.res.exc # "None" THEN [book |-> store(data1, r2.rec), res |-> r2.res]
                 ELSE [book |-> store(data1, r2.rec), res |-> Returned(message)]

add_contact_body(args, data) ==
    IF Len(args) < 2
    THEN [book |-> data, res |-> Raised("ValueError", NotEnoughAtLeast(2, Len(args)))]
    ELSE LET name == args[1]
             phone == args[2]
             birthday == IF Len(args) > 2 THEN args[3] ELSE None
         IN  IF IndexOf(data, name, 1) = 0
             THEN IF ~NameOk(name)
                  THEN [book |-> data, res |-> Raised("ValueError", NameError)]
                  ELSE AddContactFields(add_record(data, Record(name)), name, phone,
                                        birthday, "Contact added.")
             ELSE AddContactFields(data, name, phone, birthday, "Contact updated.")

add_contact(args, data) == input_error(add_contact_body(args, data))

change_contact_body(args, data) ==
    IF Len(args) < 3
    THEN [book |-> data, res |-> Raised("ValueError", NotEnough(3, Len(args)))]
    ELSE IF Len(args) > 3
    THEN [book |-> data, res |-> Raised("ValueError", TooMany(3))]
    ELSE IF IndexOf(data, args[1], 1) # 0
         THEN LET r == edit_phone(find(data, args[1]), args[2], args[3]) IN
              IF r.res.exc # "None" THEN [book |-> store(data, r.rec), res |-> r.res]
              ELSE [book |-> store(data, r.rec), res |-> Returned("Phone number updated.")]
         ELSE [book |-> data, res |-> Returned("Contact not found.")]

change_contact(args, data) == input_error(change_contact_body(args, data))

show_phone_body(args, data) ==
    IF Len(args) < 1
    THEN [book |-> data, res |-> Raised("ValueError", NotEnoughAtLeast(1, Len(args)))]
    ELSE IF IndexOf(data, args[1], 1) # 0
         THEN LET record == find(data, args[1]) IN
              [book |-> data,
               res |-> Returned(Text(args[1]) \o ": " \o
                         JoinText(", ", [i \in 1..Len(record.phones) |-> Text(record.phones[i])]))]
         ELSE [book |-> data, res |-> Returned("Contact not found.")]

show_phone(args, data) == input_error(show_phone_body(args, data))

add_birthday_body(args, data) ==
    IF Len(args) < 2
    THEN [book |-> data, res |-> Raised("ValueError", NotEnoughAtLeast(2, Len(args)))]
    ELSE IF IndexOf(data, args[1], 1) # 0
         THEN LET r == record_add_birthday(find(data, args[1]), args[2]) IN
              IF r.res.exc # "None" THEN [book |-> store(data, r.rec), res |-> r.res]
              ELSE [book |-> store(data, r.rec), res |-> Returned("Birthday added.")]
         ELSE [book |-> data, res |-> Returned("Contact not found.")]

add_birthday(args, data) == input_error(add_birthday_body(args, data))

show_birthday_body(args, data) ==
    IF Len(args) < 1
    THEN [book |-> data, res |-> Raised("ValueError", NotEnoughAtLeast(1, Len(args)))]
    ELSE IF IndexOf(data, args[1], 1) # 0 /\ find(data, args[1]).birthday # None
         THEN [book |-> data,
               res |-> Returned(Text(args[1]) \o ": " \o strftime(find(data, args[1]).birthday))]
         ELSE [book |-> data, res |-> Returned("No birthday found for this contact.")]

show_birthday(args, data) == input_error(show_birthday_body(args, data))

\* positional parameters of show_all_contacts in the script that runs
ShowAllParameters(script) == IF script = "address_book_v2" THEN 1 ELSE 2

ShowAllTypeError == "show_all_contacts() takes 1 positional argument but 2 were given"

\* show_all_contacts called, as the loop calls every handler, with (args, book)
show_all_contacts_body(script, args, data) ==
    IF ShowAllParameters(script) # 2
    THEN [book |-> data, res |-> Raised("TypeError", ShowAllTypeError)]
    ELSE IF data = <<>> THEN [book |-> data, res |-> Returned("No contacts found.")]
    ELSE [book |-> data, res |-> Returned(BookStr(data))]

show_all_contacts(script, args, data) ==
    input_error(show_all_contacts_body(script, args, data))

show_upcoming_birthdays_body(args, data, today) ==
    LET up == upcoming_birthdays(data, today) IN
    IF up.exc # "None" THEN [book |-> data, res |-> up]
    ELSE IF up.value = <<>>
    THEN [book |-> data, res |-> Returned("No birthdays in the next 7 days.")]
    ELSE [book |-> data,
          res |-> Returned(JoinText("\n", [i \in 1..Len(up.value) |->
                     Text(up.value[i].name) \o ": " \o strftime(up.value[i].birthday)]))]

show_upcoming_birthdays(args, data, today) ==
    input_error(show_upcoming_birthdays_body(args, data, today))

-----------------------------------------------------------------------------
(* The inputs: the tokens typed and the lines made of them *)

kHello == <<"h", "e", "l", "l", "o">>
kAdd == <<"a", "d", "d">>
kADD == <<"A", "D", "D">>
kChange == <<"c", "h", "a", "n", "g", "e">>
kPhone == <<"p", "h", "o", "n", "e">>
kAll == <<"a", "l", "l">>
kAddBirthday == <<"a", "d", "d", "-", "b", "i", "r", "t", "h", "d", "a", "y">>
kShowBirthday == <<"s", "h", "o", "w", "-", "b", "i", "r", "t", "h", "d", "a", "y">>
kBirthdays == <<"b", "i", "r", "t", "h", "d", "a", "y", "s">>
kClose == <<"c", "l", "o", "s", "e">>
kExit == <<"E", "x", "i", "t">>
kDelete == <<"d", "e", "l", "e", "t", "e">>
nAl == <<"A", "l">>
nBo == <<"B", "o">>
p1 == <<"1", "2", "3", "4", "5", "6", "7", "8", "9", "0">>
pShort == <<"1", "2", "3", "4", "5", "6", "7", "8", "9">>
pLetters == <<"1", "2", "3", "4", "5", "a", "b", "c", "d", "e">>
bDec27 == <<"2", "7", ".", "1", "2", ".", "2", "0", "0", "0">>
bLeap == <<"2", "9", ".", "0", "2", ".", "2", "0", "0", "0">>
bFeb31 == <<"3", "1", ".", "0", "2", ".", "2", "0", "0", "0">>
bJan03 == <<"0", "3", ".", "0", "1", ".", "1", "9", "9", "0">>
bJan04 == <<"0", "4", ".", "0", "1", ".", "1", "9", "9", "0">>
bJun10 == <<"1", "0", ".", "0", "6", ".", "1", "9", "9", "5">>
bJun11 == <<"1", "1", ".", "0", "6", ".", "1", "9", "9", "5">>
bJun17 == <<"1", "7", ".", "0", "6", ".", "2", "0", "0", "0">>
bJun18 == <<"1", "8", ".", "0", "6", ".", "2", "0", "0", "0">>

\* ten decimal digits, none of them ASCII
pArabic == [i \in 1..10 |-> ArabicThree]

Names == {nAl, nBo}
GoodPhones == {p1, pArabic}
BadPhones == {pShort, pLetters}
Phones == GoodPhones \cup BadPhones
GoodBirthdays == {bDec27}
BadBirthdays == {bFeb31}
Birthdays == GoodBirthdays \cup BadBirthdays

\* the tokens separated by one space
RECURSIVE Typed(_)
Typed(tokens) ==
    IF tokens = <<>> THEN <<>>
    ELSE IF Len(tokens) = 1 THEN tokens[1]
    ELSE tokens[1] \o <<" ">> \o Typed(Tail(tokens))

HelloLines == {Typed(<<kHello>>)}
AddLines ==
    {Typed(<<kAdd, n, p>>) : n \in Names, p \in Phones}
      \cup {Typed(<<kAdd, n, p1, b>>) : n \in Names, b \in Birthdays}
      \cup {Typed(<<kADD, nAl, p1>>), Typed(<<kAdd>>), Typed(<<kAdd, nAl>>)}
ChangeLines ==
    {Typed(<<kChange, n, p1, q>>) : n \in Names, q \in {pArabic, pShort}}
      \cup {Typed(<<kChange, n, pArabic, p1>>) : n \in Names}
      \cup {Typed(<<kChange>>), Typed(<<kChange, nAl, p1>>),
            Typed(<<kChange, nAl, p1, pArabic, pArabic>>)}
PhoneLines == {Typed(<<kPhone, n>>) : n \in Names} \cup {Typed(<<kPhone>>)}
AllLines == {Typed(<<kAll>>)}
AddBirthdayLines ==
    {Typed(<<kAddBirthday, n, b>>) : n \in Names, b \in Birthdays}
      \cup {Typed(<<kAddBirthday, nAl>>)}
ShowBirthdayLines == {Typed(<<kShowBirthday, n>>) : n \in Names} \cup {Typed(<<kShowBirthday>>)}
BirthdaysLines == {Typed(<<kBirthdays>>)}
CloseLines == {Typed(<<kClose>>), <<" ">> \o kExit \o <<" ">>}
UnknownLines == {Typed(<<kDelete, nAl>>)}
BlankLines == {<<>>, <<" ", " ">>}

-----------------------------------------------------------------------------
(* parse_input and the loop of main() *)

\* parse_input: <<cmd, args>>, or the ValueError of unpacking no token
parse_input(user_input) ==
    LET tokens == split(user_input) IN
    IF tokens = <<>>
    THEN Raised("ValueError", NotEnoughAtLeast(1, 0))
    ELSE Returned(<<Text(lower(Head(tokens))), Tail(tokens)>>)

Lines ==
    HelloLines \cup AddLines \cup ChangeLines \cup PhoneLines \cup AllLines
      \cup AddBirthdayLines \cup ShowBirthdayLines \cup BirthdaysLines \cup CloseLines
      \cup UnknownLines \cup BlankLines

\* parse_input tabulated over the lines that are typed
Parsed == [l \in Lines |-> parse_input(l)]

\* the keys of the dict handlers
HandlerNames ==
    {"hello", "add", "change", "phone", "all", "add-birthday", "show-birthday", "birthdays"}

\* handlers[command](args, book)
CallHandler(script, command, args, data, today) ==
    CASE command = "hello" -> greet(args, data)
      [] command = "add" -> add_contact(args, data)
      [] command = "change" -> change_contact(args, data)
      [] command = "phone" -> show_phone(args, data)
      [] command = "all" -> show_all_contacts(script, args, data)
      [] command = "add-birthday" -> add_birthday(args, data)
      [] command = "show-birthday" -> show_birthday(args, data)
      [] command = "birthdays" -> show_upcoming_birthdays(args, data, today)

\* phones held by all the records together
RECURSIVE PhoneCount(_)
PhoneCount(data) ==
    IF data = <<>> THEN 0 ELSE Len(Head(data).phones) + PhoneCount(Tail(data))

\* one turn of "while True" on the line user_input, as the set that holds its
\* one outcome: what the turn leaves in book, what it prints (output is kept
\* when nothing is printed) and how the loop stands afterwards
MainLoop(user_input) ==
    LET parsed == Parsed[user_input] IN
    IF parsed.exc # "None"
    THEN {[book |-> book, output |-> output, status |-> parsed.exc]}
    ELSE IF parsed.value[1] \in {"close", "exit"}
    THEN {[book |-> book, output |-> "Good bye!", status |-> "exited"]}
    ELSE IF parsed.value[1] \in HandlerNames
    THEN {IF r.res.exc # "None"
          THEN [book |-> r.book, output |-> output, status |-> r.res.exc]
          ELSE [book |-> r.book, output |-> r.res.value, status |-> status] :
            r \in {CallHandler(entry, parsed.value[1], parsed.value[2], book, now)}}
    ELSE {[book |-> book, output |-> "Invalid command.", status |-> status]}

-----------------------------------------------------------------------------
(* The clock *)

\* the instant one tick after dt
NextInstant(dt) ==
    IF dt[4] + 1 < TicksPerDay THEN <<dt[1], dt[2], dt[3], dt[4] + 1>>
    ELSE NextDay(dt[1], dt[2], dt[3]) \o <<0>>

\* midnights at which a run may start
LoopStart == <<2023, 12, 27, 0>>
StartClocks == {LoopStart, <<2023, 6, 10, 0>>, <<2024, 2, 22, 0>>, <<2023, 2, 22, 0>>}

Tick ==
    /\ \E s \in StartClocks : Instant(now) - Instant(s) \in 0..(MaxTicks - 1)
    /\ now' = NextInstant(now)
    /\ UNCHANGED <<book, status, output, line, entry, upcoming, days>>

-----------------------------------------------------------------------------
(* The command loop *)

NoCall == [at |-> <<>>, name |-> <<>>, res |-> Returned(None)]

Init ==
    /\ book = <<>>
    /\ status = "running"
    /\ output = "Welcome to the assistant bot!"
    /\ line = <<>>
    /\ entry \in {"address_book_v2", "main"}
    /\ now = LoopStart
    /\ upcoming = NoCall
    /\ days = NoCall

\* the user types hello
Hello ==
    /\ status = "running"
    /\ \E l \in HelloLines :
        \E turn \in MainLoop(l) :
            /\ PhoneCount(turn.book) <= MaxPhones
            /\ line' = l
            /\ book' = turn.book
            /\ output' = turn.output
            /\ status' = turn.status
    /\ UNCHANGED <<entry, now, upcoming, days>>

\* the user types add
Add ==
    /\ status = "running"
    /\ \E l \in AddLines :
        \E turn \in MainLoop(l) :
            /\ PhoneCount(turn.book) <= MaxPhones
            /\ line' = l
            /\ book' = turn.book
            /\ output' = turn.output
            /\ status' = turn.status
    /\ UNCHANGED <<entry, now, upcoming, days>>

\* the user types change
Change ==
    /\ status = "running"
    /\ \E l \in ChangeLines :
        \E turn \in MainLoop(l) :
            /\ PhoneCount(turn.book) <= MaxPhones
            /\ line' = l
            /\ book' = turn.book
            /\ output' = turn.output
            /\ status' = turn.status
    /\ UNCHANGED <<entry, now, upcoming, days>>

\* the user types phone
Phone ==
    /\ status = "running"
    /\ \E l \in PhoneLines :
        \E turn \in MainLoop(l) :
            /\ PhoneCount(turn.book) <= MaxPhones
            /\ line' = l
            /\ book' = turn.book
            /\ output' = turn.output
            /\ status' = turn.status
    /\ UNCHANGED <<entry, now, upcoming, days>>

\* the user types all
All ==
    /\ status = "running"
    /\ \E l \in AllLines :
        \E turn \in MainLoop(l) :
            /\ PhoneCount(turn.book) <= MaxPhones
            /\ line' = l
            /\ book' = turn.book
            /\ output' = turn.output
            /\ status' = turn.status
    /\ UNCHANGED <<entry, now, upcoming, days>>

\* the user types add-birthday
AddBirthday ==
    /\ status = "running"
    /\ \E l \in AddBirthdayLines :
        \E turn \in MainLoop(l) :
            /\ PhoneCount(turn.book) <= MaxPhones
            /\ line' = l
            /\ book' = turn.book
            /\ output' = turn.output
            /\ status' = turn.status
    /\ UNCHANGED <<entry, now, upcoming, days>>

\* the user types show-birthday
ShowBirthday ==
    /\ status = "running"
    /\ \E l \in ShowBirthdayLines :
        \E turn \in MainLoop(l) :
            /\ PhoneCount(turn.book) <= MaxPhones
            /\ line' = l
            /\ book' = turn.book
            /\ output' = turn.output
            /\ status' = turn.status
    /\ UNCHANGED <<entry, now, upcoming, days>>

\* the user types birthdays
ShowUpcoming ==
    /\ status = "running"
    /\ \E l \in BirthdaysLines :
        \E turn \in MainLoop(l) :
            /\ PhoneCount(turn.book) <= MaxPhones
            /\ line' = l
            /\ book' = turn.book
            /\ output' = turn.output
            /\ status' = turn.status
    /\ UNCHANGED <<entry, now, upcoming, days>>

\* the user types close or exit
Close ==
    /\ status = "running"
    /\ \E l \in CloseLines :
        \E turn \in MainLoop(l) :
            /\ PhoneCount(turn.book) <= MaxPhones
            /\ line' = l
            /\ book' = turn.book
            /\ output' = turn.output
            /\ status' = turn.status
    /\ UNCHANGED <<entry, now, upcoming, days>>

\* the user types a word that is no command
Unknown ==
    /\ status = "running"
    /\ \E l \in UnknownLines :
        \E turn \in MainLoop(l) :
            /\ PhoneCount(turn.book) <= MaxPhones
            /\ line' = l
            /\ book' = turn.book
            /\ output' = turn.output
            /\ status' = turn.status
    /\ UNCHANGED <<entry, now, upcoming, days>>

\* the user types nothing but whitespace
Blank ==
    /\ status = "running"
    /\ \E l \in BlankLines :
        \E turn \in MainLoop(l) :
            /\ PhoneCount(turn.book) <= MaxPhones
            /\ line' = l
            /\ book' = turn.book
            /\ output' = turn.output
            /\ status' = turn.status
    /\ UNCHANGED <<entry, now, upcoming, days>>

Next ==
    \/ Hello
    \/ Add
    \/ Change
    \/ Phone
    \/ All
    \/ AddBirthday
    \/ ShowBirthday
    \/ ShowUpcoming
    \/ Close
    \/ Unknown
    \/ Blank

Spec == Init /\ [][Next]_vars

-----------------------------------------------------------------------------
(* The date queries called on a populated book while the clock runs *)

DateBirthdays == {bJan03, bJan04, bJun10, bJun11, bJun17, bJun18, bLeap}

\* a record as add / add-birthday leave it
RecordWith(name, birthday) ==
    IF birthday = None THEN Record(name)
    ELSE record_add_birthday(Record(name), birthday).rec

DateBooks ==
    {<<>>}
      \cup {add_record(<<>>, RecordWith(n, b)) : n \in Names, b \in DateBirthdays \cup {None}}
      \cup {add_record(add_record(<<>>, RecordWith(n1, b1)), RecordWith(n2, b2)) :
              <<n1, n2>> \in {<<nAl, nBo>>, <<nBo, nAl>>},
              <<b1, b2>> \in (DateBirthdays \cup {None}) \X (DateBirthdays \cup {None})}

DateInit ==
    /\ book \in DateBooks
    /\ status = "running"
    /\ output = "Welcome to the assistant bot!"
    /\ line = <<>>
    /\ entry = "address_book_v2"
    /\ now \in StartClocks
    /\ upcoming = NoCall
    /\ days = NoCall

\* book.upcoming_birthdays()
UpcomingBirthdays ==
    /\ upcoming' = [at |-> now, name |-> <<>>, res |-> upcoming_birthdays(book, now)]
    /\ UNCHANGED <<book, status, output, line, entry, now, days>>

\* record.days_to_birthday() on a record of the book
DaysToBirthday ==
    \E i \in 1..Len(book) :
        /\ days' = [at |-> now, name |-> book[i].name, res |-> days_to_birthday(book[i], now)]
        /\ UNCHANGED <<book, status, output, line, entry, now, upcoming>>

DateNext ==
    \/ UpcomingBirthdays
    \/ DaysToBirthday
    \/ Tick

DateSpec == DateInit /\ [][DateNext]_vars

-----------------------------------------------------------------------------
(* The properties *)

\* the line was parsed into a command and its arguments
Read(l) == Parsed[l].exc = "None"
Command(l) == Parsed[l].value[1]
Args(l) == Parsed[l].value[2]

\* what the handlers print when they have done what was asked
SuccessMessages ==
    {"Contact added.", "Contact updated.", "Phone number updated.", "Birthday added."}

\* positional arguments each handler needs
RequiredArguments(command) ==
    CASE command \in {"add", "add-birthday"} -> 2
      [] command = "change" -> 3
      [] command \in {"phone", "show-birthday"} -> 1
      [] OTHER -> 0

Holds(rec, phone) == FirstIndex(rec.phones, phone, 1) # 0

RECURSIVE Count(_, _)
Count(phones, phone) ==
    IF phones = <<>> THEN 0
    ELSE (IF Head(phones) = phone THEN 1 ELSE 0) + Count(Tail(phones), phone)

\* the first date on or after the day of today that has the month and day of
\* birthday, as days from today's date
RECURSIVE OccurrenceFrom(_, _, _)
OccurrenceFrom(y, birthday, today) ==
    IF /\ ValidDate(y, birthday[2], birthday[3])
       /\ Ordinal(y, birthday[2], birthday[3]) >= Ordinal(today[1], today[2], today[3])
    THEN Ordinal(y, birthday[2], birthday[3]) - Ordinal(today[1], today[2], today[3])
    ELSE OccurrenceFrom(y + 1, birthday, today)

DaysUntilNext(today, birthday) == OccurrenceFrom(today[1], birthday, today)

\* no record of the book was born on a 29 February, the one birthday that
\* replace(year=...) cannot move into every year
NoLeapDay(data) ==
    \A i \in 1..Len(data) :
        data[i].birthday # None => ~(data[i].birthday[2] = 2 /\ data[i].birthday[3] = 29)

\* the last upcoming_birthdays() returned a list that holds rec
Listed(rec) ==
    /\ upcoming.res.exc = "None"
    /\ \E k \in 1..Len(upcoming.res.value) : upcoming.res.value[k] = rec

\* C1: no error ends the command loop: once the loop has stopped, it was the
\* command close or exit that stopped it.
C1_LoopEndsOnlyOnCloseOrExit ==
    status # "running" =>
        /\ status = "exited"
        /\ Read(line)
        /\ Command(line) \in {"close", "exit"}

\* C2: a handler called with fewer arguments than it requires answers with
\* the fixed message "Missing arguments.".
C2_MissingArgumentsMessage ==
    (/\ Read(line)
     /\ Command(line) \in HandlerNames
     /\ Len(Args(line)) < RequiredArguments(Command(line)))
        => (status = "running" /\ output = "Missing arguments.")

\* C3: when add, change or add-birthday answers with an error message, the
\* book is exactly as it was before the call.
C3_ErrorLeavesBookAsItWas ==
    [][(/\ status' = "running"
        /\ Read(line')
        /\ Command(line') \in {"add", "change", "add-birthday"}
        /\ output' \notin SuccessMessages)
          => book' = book]_vars

\* C4: the add call that creates the record of a name answers "Contact
\* added.", and "Contact updated." is answered only when the record was there
\* before the call.
C4_CreationSaysAdded ==
    [][(/\ status' = "running"
        /\ Read(line')
        /\ Command(line') = "add"
        /\ Len(Args(line')) >= 2)
          => /\ (/\ IndexOf(book, Args(line')[1], 1) = 0
                 /\ IndexOf(book', Args(line')[1], 1) # 0)
                    => output' = "Contact added."
             /\ output' = "Contact updated." => IndexOf(book, Args(line')[1], 1) # 0]_vars

\* C5: upcoming_birthdays lists a record whose next birthday is exactly 7 days
\* after today's date and leaves out one whose next birthday is 8 or more days
\* after it, on every date (stated for books without a 29 February birthday).
C5_SevenDaysInEightDaysOut ==
    (upcoming.at # <<>> /\ NoLeapDay(book)) =>
        \A i \in 1..Len(book) :
            book[i].birthday # None =>
                /\ DaysUntilNext(upcoming.at, book[i].birthday) = 7 => Listed(book[i])
                /\ DaysUntilNext(upcoming.at, book[i].birthday) >= 8 => ~Listed(book[i])

\* C6: upcoming_birthdays lists a record whose birthday is today, at every
\* time of the day, and lists records in the order of insertion (stated for
\* books without a 29 February birthday).
C6_TodayIsListedInOrder ==
    (upcoming.at # <<>> /\ NoLeapDay(book)) =>
        /\ \A i \in 1..Len(book) :
               (/\ book[i].birthday # None
                /\ book[i].birthday[2] = upcoming.at[2]
                /\ book[i].birthday[3] = upcoming.at[3])
                   => Listed(book[i])
        /\ upcoming.res.exc = "None" =>
               upcoming.res.value = SelectSeq(book, LAMBDA r : Listed(r))

\* C7: the command all prints "No contacts found." for an empty book and
\* otherwise the records, one per line, in the order of insertion, in both
\* scripts.
C7_AllPrintsTheBook ==
    (Read(line) /\ Command(line) = "all")
        => /\ status = "running"
           /\ output = IF book = <<>> THEN "No contacts found." ELSE BookStr(book)

\* C8: every phone stored in every record is a string of exactly 10 decimal
\* digits.
C8_PhonesAreTenDigits ==
    \A i \in 1..Len(book) :
        \A j \in 1..Len(book[i].phones) :
            /\ Len(book[i].phones[j]) = 10
            /\ \A k \in 1..Len(book[i].phones[j]) : IsDecimalDigit(book[i].phones[j][k])

\* C8 witness: the book holds phones, one of them after an edit, and the
\* last command was refused for its phone.
C8_Witness ==
    /\ status = "running"
    /\ Read(line)
    /\ Command(line) \in {"add", "change"}
    /\ output = PhoneError
    /\ \E i \in 1..Len(book) : Holds(book[i], pArabic) /\ Holds(book[i], p1)

\* the step is a change of phone p of record n into q that succeeded
ChangeDone(n, p, q) ==
    /\ status' = "running"
    /\ Read(line')
    /\ Command(line') = "change"
    /\ Args(line') = <<n, p, q>>
    /\ output' = "Phone number updated."

\* edit_phone(p, r) on the record of n in data fails as phone not found
EditFailsNotFound(data, n, p, r) ==
    LET e == edit_phone(find(data, n), p, r) IN
    e.res.exc = "ValueError" /\ e.res.value = PhoneNotFound(p)

\* C9, as claimed: after edit_phone(p, q) with q # p succeeds on a record
\* holding p, a further edit_phone(p, r) fails as phone not found, duplicates
\* or not.
C9_SecondEditFails ==
    [][\A n \in Names, p \in GoodPhones, q \in GoodPhones :
          (ChangeDone(n, p, q) /\ q # p)
              => \A r \in Phones : EditFailsNotFound(book', n, p, r)]_vars

\* C9, amended: after edit_phone(p, q) with q # p succeeds on a record holding
\* p exactly once, a further edit_phone(p, r) fails as phone not found.
C9_SecondEditFailsWhenHeldOnce ==
    [][\A n \in Names, p \in GoodPhones, q \in GoodPhones :
          (ChangeDone(n, p, q) /\ q # p /\ Count(find(book, n).phones, p) = 1)
              => \A r \in Phones : EditFailsNotFound(book', n, p, r)]_vars

\* C9 witness: a change of p into q # p has just succeeded on a record that
\* now holds q and no p, and editing p again fails.
C9_Witness ==
    /\ status = "running"
    /\ Read(line)
    /\ Command(line) = "change"
    /\ Len(Args(line)) = 3
    /\ output = "Phone number updated."
    /\ Args(line)[2] # Args(line)[3]
    /\ Holds(find(book, Args(line)[1]), Args(line)[3])
    /\ ~Holds(find(book, Args(line)[1]), Args(line)[2])
    /\ EditFailsNotFound(book, Args(line)[1], Args(line)[2], p1)

\* C10: days_to_birthday gives the calendar days from today to the next
\* birthday on or after today, between 0 and 365, and None without a birthday
\* (stated for books without a 29 February birthday).
C10_DaysToNextBirthday ==
    (days.at # <<>> /\ NoLeapDay(book)) =>
        LET rec == find(book, days.name) IN
        IF rec.birthday = None
        THEN days.res.exc = "None" /\ days.res.value = None
        ELSE /\ days.res.exc = "None"
             /\ days.res.value = <<DaysUntilNext(days.at, rec.birthday)>>
             /\ days.res.value[1] \in 0..365

====
